---- MODULE Spec2Model ----
(***************************************************************************)
(* silk-cli: the one-shot run (CommandHandler.execute) and the chat REPL   *)
(* (ChatCommand).  A step of the model is the code that runs between two   *)
(* awaits of the JavaScript source; the model stream, the prompt, the      *)
(* limit checker and the tool handlers are the environment.                *)
(***************************************************************************)
EXTENDS Integers, Sequences, FiniteSets, TLC

\* Bounds of the exploration.
MaxTurns == 2     \* input lines answered in one chat session
MaxChunks == 2    \* chunks one model stream delivers
MaxFiles == 2     \* files matched by the include patterns
MaxSize == 1      \* largest file size reported by stat

Turn == 1..MaxTurns
TaskId == 1..MaxTurns
Slot == 1..MaxChunks

\* What a queued tool closure does when it is called.
Handler == {"ok", "throw"}
\* A chunk is plain text or closes a directive for a tool with that handler.
Chunk == {"text"} \cup Handler
\* Lines typed at the chat prompt.
SlashInput == {"/exit", "/clear", "/info", "/bad"}
Input == SlashInput \cup {"text"}

Null == "null"
\* The null that loadFileContent returns for a file it could not read.
NoFile == [path |-> 0, size |-> -1, content |-> Null]

VARIABLES
  mode,          \* "cli": CommandHandler.execute runs; "chat": ChatCommand runs
  dry,           \* options.dry
  cpc,           \* position of CommandHandler.execute
  contextInfo,   \* execute: the metadata-only files gatherContextInfo returned
  context,       \* execute: the list resolveContent returned
  resolveCalls,  \* calls of resolveContent
  ntasks,        \* Task objects constructed
  curTask,       \* turn -> the Task its handlePrompt / execute built (0: none)
  queue,         \* task -> toolProcessor.queue, the handlers in enqueue order
  stream,        \* task -> state of the model stream
  chunks,        \* task -> process(chunk) calls
  queueReads,    \* task -> reads of toolProcessor.queue by a fan-out
  finishCalls,   \* task -> calls of toolProcessor.finish()
  attachedTo,    \* processor (task) the renderer is attached to (0: none)
  attachCalls,   \* task -> renderer.attach calls
  cleanupCalls,  \* task -> renderer.cleanup calls made while attached to it
  tasksRead,     \* turn -> the entries <<task, index>> its fan-out mapped over
  status,        \* turn -> state of the wrapper promise of each mapped entry
  starts,        \* task -> index -> calls of that queue entry
  pc,            \* turn -> position of handleQuestion
  cmd,           \* turn -> slash command handled in it
  prompts,       \* inquirer input prompts outstanding
  asked,         \* turn -> askQuestion() calls made by its handleQuestion
  nturns,        \* input lines answered
  exited,        \* process.exit(0) was called
  history,       \* state.history, <<role, turn>> entries
  errLog,        \* logger.error calls: <<kind, a, b>> (console output is not kept)
  messages,      \* the message list of the latest execute(messages, config) call
  call           \* "lib": the direct call of an exported file utility under test

taskVars == <<ntasks, curTask, queue, stream, chunks, queueReads, finishCalls>>
rendererVars == <<attachedTo, attachCalls, cleanupCalls>>
fanVars == <<tasksRead, status, starts>>
fileVars == <<contextInfo, context, resolveCalls>>
replVars == <<pc, cmd, prompts, asked, nturns, exited, history>>
vars == <<mode, dry, cpc, fileVars, taskVars, rendererVars, fanVars, replVars, errLog, messages, call>>

----------------------------------------------------------------------------
\* Files

\* A metadata-only File as gatherContextInfo builds it.
FileInfo(p, s) == [path |-> p, size |-> s, content |-> Null]

\* The lists gatherContextInfo can return: distinct paths, sizes from stat.
GatheredLists ==
  UNION {{[i \in 1..n |-> FileInfo(i, sz[i])] : sz \in [1..n -> 0..MaxSize]} : n \in 0..MaxFiles}

\* loadFileContent: a new File with the content read, or null when the read fails.
loadFileContent(p, readable) ==
  IF readable THEN [path |-> p, size |-> -1, content |-> "data"] ELSE NoFile

\* resolveContent: one result per info, in order; infos without content are loaded.
resolveContent(infos, readable) ==
  [i \in 1..Len(infos) |->
     IF infos[i].content = Null \/ infos[i].content = ""
     THEN loadFileContent(infos[i].path, readable[i])
     ELSE [path |-> infos[i].path, size |-> -1, content |-> infos[i].content]]

\* new Set(files), then Array.from: the first occurrence of each path, in order.
RECURSIVE gatherFiles(_)
gatherFiles(files) ==
  IF files = <<>> THEN <<>>
  ELSE LET front == gatherFiles(SubSeq(files, 1, Len(files) - 1))
           last == files[Len(files)]
       IN IF \E i \in 1..Len(front) : front[i] = last THEN front ELSE Append(front, last)

\* Variant: the stat of a file is not guarded, so one failing stat rejects the
\* Promise.all and the outer catch returns the empty list.
gatherContextInfoNoInnerCatch(patterns, globOk, globbed, stat) ==
  IF ~patterns THEN [threw |-> FALSE, value |-> <<>>]
  ELSE IF ~globOk THEN [threw |-> FALSE, value |-> <<>>]
  ELSE LET allFiles == gatherFiles(globbed)
       IN IF \E i \in 1..Len(allFiles) : stat[allFiles[i]] < 0
          THEN [threw |-> FALSE, value |-> <<>>]
          ELSE [threw |-> FALSE,
                value |-> [i \in 1..Len(allFiles) |-> FileInfo(allFiles[i], stat[allFiles[i]])]]

\* gatherContextInfo: globbed is what globby yields (globOk: it did not reject),
\* stat[p] the size stat reports for path p (-1: stat rejects).
gatherContextInfo(patterns, globOk, globbed, stat) ==
  IF ~patterns THEN [threw |-> FALSE, value |-> <<>>]
  ELSE IF ~globOk THEN [threw |-> FALSE, value |-> <<>>]
  ELSE LET allFiles == gatherFiles(globbed)
           fileInfos == [i \in 1..Len(allFiles) |->
                           IF stat[allFiles[i]] < 0 THEN NoFile
                           ELSE FileInfo(allFiles[i], stat[allFiles[i]])]
       IN [threw |-> FALSE, value |-> SelectSeq(fileInfos, LAMBDA f : f # NoFile)]

\* path.relative(process.cwd(), p) for a path globby returned: those paths are
\* already normalised and relative to the working directory.
Relative(p) == p

\* Variant: resolveContent fills in the content of the info it was given and
\* returns that same object.
ResolveContentInPlace(heap, refs, readable) ==
  LET vals == resolveContent([i \in 1..Len(refs) |-> heap[refs[i]]], readable)
      hit(o) == {i \in 1..Len(refs) : refs[i] = o /\ vals[i] # NoFile}
  IN [heap |-> [o \in 1..Len(heap) |->
                  IF hit(o) = {} THEN heap[o]
                  ELSE [heap[o] EXCEPT !.content = vals[CHOOSE i \in hit(o) : TRUE].content]],
      result |-> [i \in 1..Len(refs) |-> IF vals[i] = NoFile THEN 0 ELSE refs[i]]]

\* The objects of one resolveContent call.  The heap maps an object (its index)
\* to its fields, refs is the argument list.  Every element of the result is
\* the null (0) or an object allocated by the call at Len(heap) + its index.
ResolveContentCall(heap, refs, readable) ==
  LET vals == resolveContent([i \in 1..Len(refs) |-> heap[refs[i]]], readable)
  IN [heap |-> heap \o vals,
      result |-> [i \in 1..Len(refs) |-> IF vals[i] = NoFile THEN 0 ELSE Len(heap) + i]]

\* The calls of the exported utilities that are explored: the arguments and what
\* the file system answers.
NoCall ==
  [fn |-> "none", done |-> FALSE,
   patterns |-> FALSE, globOk |-> FALSE, globbed |-> <<>>, stat |-> <<>>, threw |-> FALSE, returned |-> <<>>,
   heap |-> <<>>, refs |-> <<>>, readable |-> <<>>, heapAfter |-> <<>>, result |-> <<>>]

\* File values resolveContent can be handed: metadata-only, empty or with content.
InfoValues ==
  {[path |-> p, size |-> 0, content |-> c] : p \in 1..MaxFiles, c \in {Null, "", "data"}}

ResolveCalls ==
  UNION {{[NoCall EXCEPT !.fn = "resolveContent", !.heap = h, !.refs = [i \in 1..n |-> i], !.readable = r]
            : h \in [1..n -> InfoValues], r \in [1..n -> BOOLEAN]} : n \in 0..MaxFiles}

GatherCalls ==
  {[NoCall EXCEPT !.fn = "gatherContextInfo", !.patterns = p, !.globOk = g, !.globbed = m, !.stat = st]
     : p \in BOOLEAN, g \in BOOLEAN,
       m \in UNION {[1..n -> 1..MaxFiles] : n \in 0..MaxFiles},
       st \in [1..MaxFiles -> -1..MaxSize]}

LibCalls == ResolveCalls \cup GatherCalls

----------------------------------------------------------------------------
\* Task, processor, renderer

\* new Task(...): a fresh Task with its own processor and an empty queue.
NewTask(t) ==
  /\ ntasks' = ntasks + 1
  /\ curTask' = [curTask EXCEPT ![t] = ntasks + 1]
  /\ queue' = [queue EXCEPT ![ntasks + 1] = <<>>]

\* renderer.attach(task.toolProcessor)
Attach(k) ==
  /\ attachedTo' = k
  /\ attachCalls' = [attachCalls EXCEPT ![k] = @ + 1]
  /\ UNCHANGED cleanupCalls

\* renderer.cleanup(): detaches from the processor it is attached to.
Cleanup ==
  /\ cleanupCalls' = [k \in TaskId |-> IF k = attachedTo THEN cleanupCalls[k] + 1 ELSE cleanupCalls[k]]
  /\ attachedTo' = 0
  /\ UNCHANGED attachCalls

\* toolProcessor.process(chunk): a chunk closing a directive appends its closure.
process(k, c) ==
  /\ chunks' = [chunks EXCEPT ![k] = @ + 1]
  /\ queue' = [queue EXCEPT ![k] = IF c \in Handler THEN Append(@, c) ELSE @]

----------------------------------------------------------------------------
\* The fan-out: Promise.all(tasks.map(async task => { try { return await task(..) } catch .. }))

\* Variant: one processor queue shared by all Tasks, never reset, so the read
\* returns the entries of every Task built so far.
TurnQueueShared(t) ==
  LET all == {<<k, i>> \in (1..curTask[t]) \X Slot : i <= Len(queue[k])}
      before(id) == Cardinality({o \in all : o[1] < id[1] \/ (o[1] = id[1] /\ o[2] <= id[2])})
  IN [j \in 1..Cardinality(all) |-> CHOOSE id \in all : before(id) = j]

\* tasks = currentTask?.toolProcessor.queue: the entries of the queue of the
\* Task this turn built, in queue order.
TurnQueue(t) ==
  [i \in 1..Len(queue[curTask[t]]) |-> <<curTask[t], i>>]

\* Variant: a loop that awaits each entry before it calls the next one; only
\* the first entry is called before the first await.
StartAllSequential(t) ==
  /\ queueReads' = [queueReads EXCEPT ![curTask[t]] = @ + 1]
  /\ tasksRead' = [tasksRead EXCEPT ![t] = TurnQueue(t)]
  /\ status' = [status EXCEPT ![t] = [i \in 1..Len(TurnQueue(t)) |-> IF i = 1 THEN "running" ELSE "queued"]]
  /\ starts' = [k \in TaskId |-> [i \in Slot |->
                  IF Len(TurnQueue(t)) > 0 /\ TurnQueue(t)[1] = <<k, i>> THEN starts[k][i] + 1 ELSE starts[k][i]]]

\* tasks.map(...) calls every entry, in order, before anything is awaited.
StartAll(t) ==
  /\ queueReads' = [queueReads EXCEPT ![curTask[t]] = @ + 1]
  /\ tasksRead' = [tasksRead EXCEPT ![t] = TurnQueue(t)]
  /\ status' = [status EXCEPT ![t] = [i \in 1..Len(TurnQueue(t)) |-> "running"]]
  /\ starts' = [k \in TaskId |-> [i \in Slot |->
                  starts[k][i] + Cardinality({j \in 1..Len(TurnQueue(t)) : TurnQueue(t)[j] = <<k, i>>})]]

\* Variant: the wrapper without its try/catch, a throwing handler rejects it.
WrapperNoCatch(h) ==
  IF h = "throw" THEN "rejected" ELSE "ok"

\* The wrapper around one entry: a throwing or rejecting handler is caught and
\* logged, and the wrapper's own promise still resolves.
Wrapper(h) ==
  IF h = "throw" THEN "failed" ELSE "ok"

\* One started entry settles.
InvocationSettle(t, i) ==
  /\ i \in DOMAIN status[t]
  /\ status[t][i] = "running"
  /\ LET id == tasksRead[t][i]
         out == Wrapper(queue[id[1]][id[2]])
     IN /\ status' = [status EXCEPT ![t][i] = out]
        /\ errLog' = IF out = "failed" THEN errLog \cup {<<"inv", id[1], id[2]>>} ELSE errLog
  /\ UNCHANGED <<call, messages, mode, dry, cpc, fileVars, taskVars, rendererVars, tasksRead, starts, replVars>>

\* Variant: the promise of the fan-out is not awaited.
PromiseAllNotAwaited(t) ==
  "resolved"

\* State of the promise Promise.all returns for the wrappers of turn t.
PromiseAll(t) ==
  IF \E i \in DOMAIN status[t] : status[t][i] = "rejected" THEN "rejected"
  ELSE IF \A i \in DOMAIN status[t] : status[t][i] \in {"ok", "failed"} THEN "resolved"
  ELSE "pending"

\* Variant: the stream is started but its end is not awaited.
StreamDoneNotAwaited(k) ==
  stream[k] \in {"open", "ended"}

\* await on the model stream: the continuation runs once the stream has ended.
StreamDone(k) ==
  stream[k] = "ended"

----------------------------------------------------------------------------
\* CommandHandler.execute

CliTurn == 1

\* gatherContextInfo(include), stats
CliGather ==
  /\ mode = "cli" /\ cpc = "start"
  /\ \E infos \in GatheredLists : contextInfo' = infos
  /\ cpc' = "check"
  /\ UNCHANGED <<call, messages, mode, dry, context, resolveCalls, taskVars, rendererVars, fanVars, replVars, errLog>>

\* Variant: the catch of the limit check logs but does not return.
CliCheckLimitsNoReturn ==
  /\ mode = "cli" /\ cpc = "check"
  /\ \E bad \in 0..Len(contextInfo) :
       errLog' = IF bad > 0 THEN errLog \cup {<<"limit", bad, 0>>} ELSE errLog
  /\ resolveCalls' = resolveCalls + 1
  /\ cpc' = "resolve"
  /\ UNCHANGED <<call, messages, mode, dry, contextInfo, context, taskVars, rendererVars, fanVars, replVars>>

\* The limit check over the metadata; bad is the first file checkFile throws
\* for (0: none).  On a throw execute logs and returns, else it calls resolveContent.
CliCheckLimits ==
  /\ mode = "cli" /\ cpc = "check"
  /\ \E bad \in 0..Len(contextInfo) :
       IF bad > 0
       THEN /\ errLog' = errLog \cup {<<"limit", bad, 0>>}
            /\ cpc' = "returned"
            /\ UNCHANGED resolveCalls
       ELSE /\ resolveCalls' = resolveCalls + 1
            /\ cpc' = "resolve"
            /\ UNCHANGED errLog
  /\ UNCHANGED <<call, messages, mode, dry, contextInfo, context, taskVars, rendererVars, fanVars, replVars>>

\* Variant: execute does not test options.dry before it calls the executor.
CliBuildTaskIgnoreDry ==
  /\ mode = "cli" /\ cpc = "resolve"
  /\ \E readable \in [1..Len(contextInfo) -> BOOLEAN] :
       context' = resolveContent(contextInfo, readable)
  /\ NewTask(CliTurn)
  /\ Attach(ntasks + 1)
  /\ cpc' = "exec" /\ stream' = [stream EXCEPT ![ntasks + 1] = "open"]
  /\ UNCHANGED <<call, messages, mode, dry, contextInfo, resolveCalls, chunks, queueReads, finishCalls, fanVars, replVars, errLog>>

\* resolveContent returns; the Task is built, the renderer attached and, unless
\* dry, the executor called.
CliBuildTask ==
  /\ mode = "cli" /\ cpc = "resolve"
  /\ \E readable \in [1..Len(contextInfo) -> BOOLEAN] :
       context' = resolveContent(contextInfo, readable)
  /\ NewTask(CliTurn)
  /\ Attach(ntasks + 1)
  /\ IF dry
     THEN cpc' = "cleanup" /\ UNCHANGED stream
     ELSE cpc' = "exec" /\ stream' = [stream EXCEPT ![ntasks + 1] = "open"]
  /\ UNCHANGED <<call, messages, mode, dry, contextInfo, resolveCalls, chunks, queueReads, finishCalls, fanVars, replVars, errLog>>

\* The executor forwards one chunk of the stream to the task's processor.
CliExecutorChunk(c) ==
  /\ mode = "cli"
  /\ curTask[CliTurn] # 0
  /\ stream[curTask[CliTurn]] = "open"
  /\ chunks[curTask[CliTurn]] < MaxChunks
  /\ process(curTask[CliTurn], c)
  /\ UNCHANGED <<call, messages, mode, dry, cpc, fileVars, ntasks, curTask, stream, queueReads, finishCalls, rendererVars, fanVars, replVars, errLog>>

\* The stream of the executor ends.
CliExecutorEnd ==
  /\ mode = "cli"
  /\ curTask[CliTurn] # 0
  /\ stream[curTask[CliTurn]] = "open"
  /\ stream' = [stream EXCEPT ![curTask[CliTurn]] = "ended"]
  /\ UNCHANGED <<call, messages, mode, dry, cpc, fileVars, ntasks, curTask, queue, chunks, queueReads, finishCalls, rendererVars, fanVars, replVars, errLog>>

\* executor.execute rejects: nothing in execute catches it.
CliExecutorThrow ==
  /\ mode = "cli"
  /\ curTask[CliTurn] # 0
  /\ stream[curTask[CliTurn]] = "open"
  /\ stream' = [stream EXCEPT ![curTask[CliTurn]] = "failed"]
  /\ cpc' = IF cpc = "exec" THEN "thrown" ELSE cpc
  /\ UNCHANGED <<call, messages, mode, dry, fileVars, ntasks, curTask, queue, chunks, queueReads, finishCalls, rendererVars, fanVars, replVars, errLog>>

\* executor.execute has resolved: the queue is read and every entry started.
CliFanOut ==
  /\ mode = "cli" /\ cpc = "exec"
  /\ StreamDone(curTask[CliTurn])
  /\ StartAll(CliTurn)
  /\ cpc' = "fanout"
  /\ UNCHANGED <<call, messages, mode, dry, fileVars, ntasks, curTask, queue, stream, chunks, finishCalls, rendererVars, replVars, errLog>>

\* await Promise.all(...) is over.
CliFanOutDone ==
  /\ mode = "cli" /\ cpc = "fanout"
  /\ PromiseAll(CliTurn) # "pending"
  /\ cpc' = IF PromiseAll(CliTurn) = "resolved" THEN "cleanup" ELSE "thrown"
  /\ UNCHANGED <<call, messages, mode, dry, fileVars, taskVars, rendererVars, fanVars, replVars, errLog>>

\* renderer.cleanup(), the last statement of execute.
CliCleanup ==
  /\ mode = "cli" /\ cpc = "cleanup"
  /\ Cleanup
  /\ cpc' = "returned"
  /\ UNCHANGED <<call, messages, mode, dry, fileVars, taskVars, fanVars, replVars, errLog>>

----------------------------------------------------------------------------
\* ChatCommand

\* this.askQuestion(): not awaited by its caller; it opens one input prompt.
Ask(t) ==
  /\ prompts' = prompts + 1
  /\ asked' = [asked EXCEPT ![t] = @ + 1]

\* init(): config, root, commands, then the first askQuestion().
ChatInit ==
  /\ mode = "chat" /\ cpc = "constructed"
  /\ cpc' = "repl"
  /\ prompts' = prompts + 1
  /\ UNCHANGED <<call, messages, mode, dry, fileVars, taskVars, rendererVars, fanVars, pc, cmd, asked, nturns, exited, history, errLog>>

\* Variant: askQuestion opens the next prompt right after calling handleQuestion.
AskQuestionReprompt(inp) ==
  /\ mode = "chat" /\ ~exited
  /\ prompts > 0
  /\ nturns < MaxTurns
  /\ prompts' = (prompts - 1) + 1
  /\ nturns' = nturns + 1
  /\ IF inp \in SlashInput
     THEN /\ cmd' = [cmd EXCEPT ![nturns + 1] = inp]
          /\ pc' = [pc EXCEPT ![nturns + 1] = "cmd"]
          /\ UNCHANGED history
     ELSE /\ history' = Append(history, <<"user", nturns + 1>>)
          /\ pc' = [pc EXCEPT ![nturns + 1] = "gather"]
          /\ UNCHANGED cmd
  /\ UNCHANGED <<call, messages, mode, dry, cpc, fileVars, taskVars, rendererVars, fanVars, asked, exited, errLog>>

\* The prompt is answered with a line: askQuestion calls handleQuestion, which
\* runs up to its first await (a slash command is dispatched, any other line is
\* pushed on the history and handed to handlePrompt).
AskQuestion(inp) ==
  /\ mode = "chat" /\ ~exited
  /\ prompts > 0
  /\ nturns < MaxTurns
  /\ prompts' = prompts - 1
  /\ nturns' = nturns + 1
  /\ IF inp \in SlashInput
     THEN /\ cmd' = [cmd EXCEPT ![nturns + 1] = inp]
          /\ pc' = [pc EXCEPT ![nturns + 1] = "cmd"]
          /\ UNCHANGED history
     ELSE /\ history' = Append(history, <<"user", nturns + 1>>)
          /\ pc' = [pc EXCEPT ![nturns + 1] = "gather"]
          /\ UNCHANGED cmd
  /\ UNCHANGED <<call, messages, mode, dry, cpc, fileVars, taskVars, rendererVars, fanVars, asked, exited, errLog>>

\* inquirer.prompt rejects with ExitPromptError: askQuestion returns.
AskQuestionExit ==
  /\ mode = "chat" /\ ~exited
  /\ prompts > 0
  /\ prompts' = prompts - 1
  /\ UNCHANGED <<call, messages, mode, dry, cpc, fileVars, taskVars, rendererVars, fanVars, pc, cmd, asked, nturns, exited, history, errLog>>

\* inquirer.prompt rejects with another error: it is printed and the prompt reopened.
AskQuestionError ==
  /\ mode = "chat" /\ ~exited
  /\ prompts > 0
  /\ prompts' = (prompts - 1) + 1
  /\ UNCHANGED <<call, messages, mode, dry, cpc, fileVars, taskVars, rendererVars, fanVars, pc, cmd, asked, nturns, exited, history, errLog>>

\* Variant: the slash-command branch of handleQuestion returns without
\* calling askQuestion.
HandleCommandNoAsk(t) ==
  /\ mode = "chat" /\ ~exited
  /\ pc[t] = "cmd"
  /\ pc' = [pc EXCEPT ![t] = "done"]
  /\ exited' = (cmd[t] = "/exit")
  /\ history' = IF cmd[t] = "/clear" THEN <<>> ELSE history
  /\ UNCHANGED <<call, messages, mode, dry, cpc, fileVars, taskVars, rendererVars, fanVars, cmd, prompts, asked, nturns, errLog>>

\* handleCommand returns (true, or false after printing the parse error), then
\* handleQuestion calls askQuestion; the exit command ends the process instead.
HandleCommand(t) ==
  /\ mode = "chat" /\ ~exited
  /\ pc[t] = "cmd"
  /\ pc' = [pc EXCEPT ![t] = "done"]
  /\ exited' = (cmd[t] = "/exit")
  /\ history' = IF cmd[t] = "/clear" THEN <<>> ELSE history
  /\ IF cmd[t] = "/exit" THEN UNCHANGED <<prompts, asked>> ELSE Ask(t)
  /\ UNCHANGED <<call, messages, mode, dry, cpc, fileVars, taskVars, rendererVars, fanVars, cmd, nturns, errLog>>

\* messages of handlePrompt: the system message, state.history as it is at
\* that point, then the user message rendered from the input of turn t.
Messages(t) ==
  <<<<"system", t, "fullSystem">>>>
    \o [j \in 1..Len(history) |-> <<history[j][1], history[j][2], "content">>]
    \o <<<<"user", t, "render">>>>

\* handlePrompt up to await execute(...): context gathered and resolved, Task
\* built, renderer attached, messages assembled, the model called.  The file
\* lists are locals consumed by the Task constructor within this step; only
\* execute keeps its lists in the state.
HandlePromptBuild(t) ==
  /\ mode = "chat" /\ ~exited
  /\ pc[t] = "gather"
  /\ resolveCalls' = resolveCalls + 1
  /\ UNCHANGED <<contextInfo, context>>
  /\ NewTask(t)
  /\ Attach(ntasks + 1)
  /\ stream' = [stream EXCEPT ![ntasks + 1] = "opening"]
  /\ pc' = [pc EXCEPT ![t] = "opening"]
  /\ messages' = Messages(t)
  /\ UNCHANGED <<call, mode, dry, cpc, chunks, queueReads, finishCalls, fanVars, cmd, prompts, asked, nturns, exited, history, errLog>>

\* execute(messages, config) resolves with the stream; streamHandler starts.
ChatExecuteResolve(t) ==
  /\ mode = "chat" /\ ~exited
  /\ pc[t] = "opening"
  /\ stream' = [stream EXCEPT ![curTask[t]] = "open"]
  /\ pc' = [pc EXCEPT ![t] = "stream"]
  /\ UNCHANGED <<call, messages, mode, dry, cpc, fileVars, ntasks, curTask, queue, chunks, queueReads, finishCalls, rendererVars, fanVars, cmd, prompts, asked, nturns, exited, history, errLog>>

\* execute(messages, config) rejects: handlePrompt rejects.
ChatExecuteReject(t) ==
  /\ mode = "chat" /\ ~exited
  /\ pc[t] = "opening"
  /\ stream' = [stream EXCEPT ![curTask[t]] = "failed"]
  /\ pc' = [pc EXCEPT ![t] = "rejected"]
  /\ UNCHANGED <<call, messages, mode, dry, cpc, fileVars, ntasks, curTask, queue, chunks, queueReads, finishCalls, rendererVars, fanVars, cmd, prompts, asked, nturns, exited, history, errLog>>

\* streamHandler hands one chunk to the callback: task.toolProcessor.process(chunk).
ChatChunk(t, c) ==
  /\ mode = "chat" /\ ~exited
  /\ curTask[t] # 0
  /\ stream[curTask[t]] = "open"
  /\ chunks[curTask[t]] < MaxChunks
  /\ process(curTask[t], c)
  /\ UNCHANGED <<call, messages, mode, dry, cpc, fileVars, ntasks, curTask, stream, queueReads, finishCalls, rendererVars, fanVars, replVars, errLog>>

\* The stream ends.
ChatStreamEnd(t) ==
  /\ mode = "chat" /\ ~exited
  /\ curTask[t] # 0
  /\ stream[curTask[t]] = "open"
  /\ stream' = [stream EXCEPT ![curTask[t]] = "ended"]
  /\ UNCHANGED <<call, messages, mode, dry, cpc, fileVars, ntasks, curTask, queue, chunks, queueReads, finishCalls, rendererVars, fanVars, replVars, errLog>>

\* Reading the stream fails: streamHandler, and with it handlePrompt, rejects.
ChatStreamFail(t) ==
  /\ mode = "chat" /\ ~exited
  /\ curTask[t] # 0
  /\ stream[curTask[t]] = "open"
  /\ stream' = [stream EXCEPT ![curTask[t]] = "failed"]
  /\ pc' = [pc EXCEPT ![t] = IF @ = "stream" THEN "rejected" ELSE @]
  /\ UNCHANGED <<call, messages, mode, dry, cpc, fileVars, ntasks, curTask, queue, chunks, queueReads, finishCalls, rendererVars, fanVars, cmd, prompts, asked, nturns, exited, history, errLog>>

\* streamHandler has resolved: renderer.cleanup(), then handlePrompt returns
\* { content, currentTask: task }.
HandlePromptResume(t) ==
  /\ mode = "chat" /\ ~exited
  /\ pc[t] = "stream"
  /\ StreamDone(curTask[t])
  /\ Cleanup
  /\ pc' = [pc EXCEPT ![t] = "resumed"]
  /\ UNCHANGED <<call, messages, mode, dry, cpc, fileVars, taskVars, fanVars, cmd, prompts, asked, nturns, exited, history, errLog>>

\* handleQuestion after await handlePrompt: the assistant message is pushed, the
\* queue read and every entry started.
HandleQuestionFanOut(t) ==
  /\ mode = "chat" /\ ~exited
  /\ pc[t] = "resumed"
  /\ history' = Append(history, <<"assistant", t>>)
  /\ StartAll(t)
  /\ pc' = [pc EXCEPT ![t] = "fanout"]
  /\ UNCHANGED <<call, messages, mode, dry, cpc, fileVars, ntasks, curTask, queue, stream, chunks, finishCalls, rendererVars, cmd, prompts, asked, nturns, exited, errLog>>

\* await Promise.all(...) is over: handleQuestion leaves the try block and
\* calls askQuestion.
HandleQuestionDone(t) ==
  /\ mode = "chat" /\ ~exited
  /\ pc[t] = "fanout"
  /\ PromiseAll(t) # "pending"
  /\ IF PromiseAll(t) = "resolved"
     THEN pc' = [pc EXCEPT ![t] = "done"] /\ Ask(t)
     ELSE pc' = [pc EXCEPT ![t] = "rejected"] /\ UNCHANGED <<prompts, asked>>
  /\ UNCHANGED <<call, messages, mode, dry, cpc, fileVars, taskVars, rendererVars, fanVars, cmd, nturns, exited, history, errLog>>

\* Variant: handleQuestion without its try/catch, the rejection escapes it.
HandleQuestionNoCatch(t) ==
  /\ mode = "chat" /\ ~exited
  /\ pc[t] = "rejected"
  /\ pc' = [pc EXCEPT ![t] = "escaped"]
  /\ UNCHANGED <<call, messages, mode, dry, cpc, fileVars, taskVars, rendererVars, fanVars, cmd, prompts, asked, nturns, exited, history, errLog>>

\* The catch of handleQuestion: the error is logged, then askQuestion is called.
HandleQuestionCatch(t) ==
  /\ mode = "chat" /\ ~exited
  /\ pc[t] = "rejected"
  /\ errLog' = errLog \cup {<<"turn", t, 0>>}
  /\ Ask(t)
  /\ pc' = [pc EXCEPT ![t] = "done"]
  /\ UNCHANGED <<call, messages, mode, dry, cpc, fileVars, taskVars, rendererVars, fanVars, cmd, nturns, exited, history>>

----------------------------------------------------------------------------
\* Direct calls of the exported file utilities

\* gatherContextInfo(patterns) is called and settles.
LibGatherContextInfo ==
  /\ mode = "lib" /\ call.fn = "gatherContextInfo" /\ ~call.done
  /\ LET r == gatherContextInfo(call.patterns, call.globOk, call.globbed, call.stat)
     IN call' = [call EXCEPT !.done = TRUE, !.threw = r.threw, !.returned = r.value]
  /\ UNCHANGED <<messages, mode, dry, cpc, fileVars, taskVars, rendererVars, fanVars, replVars, errLog>>

\* resolveContent(fileInfos) is called and returns.
LibResolveContent ==
  /\ mode = "lib" /\ call.fn = "resolveContent" /\ ~call.done
  /\ LET r == ResolveContentCall(call.heap, call.refs, call.readable)
     IN call' = [call EXCEPT !.done = TRUE, !.heapAfter = r.heap, !.result = r.result]
  /\ UNCHANGED <<messages, mode, dry, cpc, fileVars, taskVars, rendererVars, fanVars, replVars, errLog>>

----------------------------------------------------------------------------
Init ==
  /\ mode \in {"cli", "chat", "lib"}
  /\ dry \in (IF mode = "cli" THEN BOOLEAN ELSE {FALSE})
  /\ cpc = IF mode = "cli" THEN "start" ELSE IF mode = "chat" THEN "constructed" ELSE "lib"
  /\ contextInfo = <<>>
  /\ context = <<>>
  /\ resolveCalls = 0
  /\ ntasks = 0
  /\ curTask = [t \in Turn |-> 0]
  /\ queue = [k \in TaskId |-> <<>>]
  /\ stream = [k \in TaskId |-> "none"]
  /\ chunks = [k \in TaskId |-> 0]
  /\ queueReads = [k \in TaskId |-> 0]
  /\ finishCalls = [k \in TaskId |-> 0]
  /\ attachedTo = 0
  /\ attachCalls = [k \in TaskId |-> 0]
  /\ cleanupCalls = [k \in TaskId |-> 0]
  /\ tasksRead = [t \in Turn |-> <<>>]
  /\ status = [t \in Turn |-> <<>>]
  /\ starts = [k \in TaskId |-> [i \in Slot |-> 0]]
  /\ pc = [t \in Turn |-> "none"]
  /\ cmd = [t \in Turn |-> "none"]
  /\ prompts = 0
  /\ asked = [t \in Turn |-> 0]
  /\ nturns = 0
  /\ exited = FALSE
  /\ history = <<>>
  /\ errLog = {}
  /\ messages = <<>>
  /\ call \in (IF mode = "lib" THEN LibCalls ELSE {NoCall})

Next ==
  \/ LibGatherContextInfo
  \/ LibResolveContent
  \/ CliGather
  \/ CliCheckLimits
  \/ CliBuildTask
  \/ \E c \in Chunk : CliExecutorChunk(c)
  \/ CliExecutorEnd
  \/ CliExecutorThrow
  \/ CliFanOut
  \/ CliFanOutDone
  \/ CliCleanup
  \/ ChatInit
  \/ \E inp \in Input : AskQuestion(inp)
  \/ AskQuestionExit
  \/ AskQuestionError
  \/ \E t \in Turn :
       \/ HandleCommand(t)
       \/ HandlePromptBuild(t)
       \/ ChatExecuteResolve(t)
       \/ ChatExecuteReject(t)
       \/ \E c \in Chunk : ChatChunk(t, c)
       \/ ChatStreamEnd(t)
       \/ ChatStreamFail(t)
       \/ HandlePromptResume(t)
       \/ HandleQuestionFanOut(t)
       \/ HandleQuestionDone(t)
       \/ HandleQuestionCatch(t)
       \/ \E i \in Slot : InvocationSettle(t, i)

Spec == Init /\ [][Next]_vars

\* The steps of the turn t: the continuations of handleQuestion and
\* handlePrompt, the events of its model stream and the settling of its entries.
TurnStep(t) ==
  \/ HandleCommand(t)
  \/ HandlePromptBuild(t)
  \/ ChatExecuteResolve(t)
  \/ ChatExecuteReject(t)
  \/ \E c \in Chunk : ChatChunk(t, c)
  \/ ChatStreamEnd(t)
  \/ ChatStreamFail(t)
  \/ HandlePromptResume(t)
  \/ HandleQuestionFanOut(t)
  \/ HandleQuestionDone(t)
  \/ HandleQuestionCatch(t)
  \/ \E i \in Slot : InvocationSettle(t, i)

\* The event loop runs every continuation that is ready, and the model stream
\* and the tool handlers terminate; nothing is assumed about the user.
SpecFair == Spec /\ \A t \in Turn : WF_vars(TurnStep(t))

----------------------------------------------------------------------------
\* Vocabulary of the properties

\* The fan-out of turn t has read the queue and started its entries.
Ran(t) ==
  curTask[t] # 0 /\ queueReads[curTask[t]] > 0

\* Control of turn t is at await Promise.all(...).
Awaiting(t) ==
  IF mode = "cli" THEN t = CliTurn /\ cpc = "fanout" ELSE pc[t] = "fanout"

\* Control of turn t is past its fan-out.
Passed(t) ==
  Ran(t) /\ ~Awaiting(t)

\* Every entry the fan-out of turn t started has settled.
Settled(t) ==
  \A i \in DOMAIN status[t] : status[t][i] \in {"ok", "failed"}

\* The owning execute call / REPL turn of t is over.
TaskOver(t) ==
  IF mode = "cli" THEN t = CliTurn /\ cpc \in {"returned", "thrown"} ELSE pc[t] \in {"done", "escaped"}

\* handleQuestion of turn t is between its call and its last statement.
InFlight(t) ==
  pc[t] \notin {"none", "done", "escaped"}

\* The model stream of task k is being opened or read.
Streaming(k) ==
  stream[k] \in {"opening", "open"}

Roles(t) ==
  {history[j][1] : j \in {n \in 1..Len(history) : history[n][2] = t}}

----------------------------------------------------------------------------
\* C1: failure isolation.  Once a fan-out has started over a queue of N
\* entries, each entry has been called exactly once, an entry that has settled
\* is "ok" if its handler returns and "failed" if it throws, an error is logged
\* for exactly the failed entries, the promise of the fan-out is never rejected,
\* and once control is past the fan-out all N entries have settled.
C1_FailureIsolation ==
  \A t \in Turn : Ran(t) =>
    LET k == curTask[t]
        N == Len(queue[k])
    IN /\ Len(status[t]) = N
       /\ \A i \in 1..N :
            /\ starts[k][i] = 1
            /\ status[t][i] \in {"running", IF queue[k][i] = "throw" THEN "failed" ELSE "ok"}
            /\ (<<"inv", k, i>> \in errLog) <=> (status[t][i] = "failed")
       /\ PromiseAll(t) # "rejected"
       /\ cpc # "thrown" /\ pc[t] \notin {"rejected", "escaped"}
       /\ Passed(t) => Cardinality({i \in 1..N : status[t][i] \in {"ok", "failed"}}) = N

\* A fan-out over <<throw, ok>> is over: the first entry failed, the second succeeded.
C1_Witness ==
  \E t \in Turn :
    /\ Passed(t)
    /\ queue[curTask[t]] = <<"throw", "ok">>
    /\ status[t] = <<"failed", "ok">>

\* C2: renderer.cleanup() has run exactly once for the Task of every execute
\* call or chat turn that is over and had the renderer attached.
C2_CleanupExactlyOnce ==
  \A t \in Turn :
    (curTask[t] # 0 /\ attachCalls[curTask[t]] > 0 /\ TaskOver(t)) => cleanupCalls[curTask[t]] = 1

\* C3: the fan-out is a barrier.  While an entry of turn t is running, control
\* of t is at the await of its fan-out: execute has not reached cleanup or
\* returned, and the chat has neither requested nor answered the next prompt.
C3_Barrier ==
  \A t \in Turn :
    (\E i \in DOMAIN status[t] : status[t][i] = "running") =>
      /\ Awaiting(t)
      /\ mode = "cli" => cpc = "fanout" /\ cleanupCalls[curTask[t]] = 0
      /\ mode = "chat" => prompts = 0 /\ nturns = t /\ asked[t] = 0

\* Control is past a fan-out of two entries, both settled.
C3_Witness ==
  \E t \in Turn : Passed(t) /\ Len(status[t]) = 2 /\ Settled(t)

\* C4, state part: an entry is started and the queue is read only after the
\* stream of its Task has ended, the queue of a Task is read at most once, and
\* exactly once by the time a turn whose stream ended (and, in execute, that is
\* not a dry run) is over.
C4_ReadAfterStream ==
  \A t \in Turn :
    LET k == curTask[t]
    IN k # 0 =>
         /\ (queueReads[k] > 0 \/ \E i \in Slot : starts[k][i] > 0) => stream[k] = "ended"
         /\ queueReads[k] <= 1
         /\ (TaskOver(t) /\ stream[k] = "ended") => queueReads[k] = 1

\* C4, step part: no step calls process(chunk) on a Task whose queue has been read.
C4_NoProcessAfterRead ==
  \A k \in TaskId : chunks'[k] # chunks[k] => (queueReads[k] = 0 /\ queueReads'[k] = 0)

C5_FinishBeforeDrain ==
  \A t \in Turn : (mode = "chat" /\ Ran(t)) => finishCalls[curTask[t]] = 1

\* C6: renderer.cleanup() is not called for a Task until every entry queued
\* on its processor has been started and has settled.
C6_AttachedUntilSettled ==
  \A t \in Turn :
    (curTask[t] # 0 /\ cleanupCalls[curTask[t]] > 0) =>
      (Len(queue[curTask[t]]) = 0 \/ (Ran(t) /\ Settled(t)))

\* C7: a transport error is fatal to the current task only.  When the stream
\* of the Task of turn t has failed, no entry of its queue is ever started and
\* no assistant message of t is in the history; in the chat the error never
\* escapes handleQuestion, and once the turn is over the error was logged and
\* handleQuestion called askQuestion once; in execute the error is thrown to
\* the caller.
C7_TransportErrorFatalToTaskOnly ==
  \A t \in Turn :
    (curTask[t] # 0 /\ stream[curTask[t]] = "failed") =>
      /\ queueReads[curTask[t]] = 0
      /\ status[t] = <<>>
      /\ \A i \in Slot : starts[curTask[t]][i] = 0
      /\ "assistant" \notin Roles(t)
      /\ mode = "chat" =>
           /\ pc[t] \in {"rejected", "done"}
           /\ pc[t] = "done" => (<<"turn", t, 0>> \in errLog /\ asked[t] = 1)
      /\ mode = "cli" => cpc = "thrown"

\* A chat turn whose stream failed after a directive was queued is over.
C7_Witness ==
  \E t \in Turn :
    /\ mode = "chat" /\ pc[t] = "done"
    /\ curTask[t] # 0 /\ stream[curTask[t]] = "failed"
    /\ Len(queue[curTask[t]]) > 0

\* C8: single logical flow in the REPL.  At most one prompt is outstanding and
\* at most one turn is in flight; while a prompt is outstanding, and for every
\* turn that a later turn has followed, no turn is in flight, no stream is
\* open and no entry is running.
C8_SingleFlow ==
  /\ prompts <= 1
  /\ Cardinality({t \in Turn : InFlight(t)}) <= 1
  /\ \A t \in Turn :
       (prompts > 0 \/ nturns > t) =>
         /\ ~InFlight(t)
         /\ curTask[t] # 0 => ~Streaming(curTask[t])
         /\ \A i \in DOMAIN status[t] : status[t][i] # "running"

\* A second turn is streaming after a first turn that ran a fan-out.
C8_Witness ==
  \E t \in Turn :
    /\ t > 1 /\ pc[t] = "stream" /\ chunks[curTask[t]] > 0
    /\ Ran(t - 1) /\ Len(status[t - 1]) > 0

\* C9: a fresh Task per exchange.  Turns that built a Task built different
\* ones, one Task per prompt turn; the entries a fan-out starts are exactly the
\* entries of the queue of the Task its own turn built; no entry is started
\* more than once.
C9_FreshTaskPerTurn ==
  /\ \A t1, t2 \in Turn : (t1 # t2 /\ curTask[t1] # 0) => curTask[t1] # curTask[t2]
  /\ ntasks = Cardinality({t \in Turn : curTask[t] # 0})
  /\ \A t \in Turn :
       /\ (mode = "chat" /\ pc[t] \in {"opening", "stream", "resumed", "fanout"}) => curTask[t] # 0
       /\ \A j \in DOMAIN tasksRead[t] : tasksRead[t][j] = <<curTask[t], j>>
       /\ Ran(t) => Len(tasksRead[t]) = Len(queue[curTask[t]])
  /\ \A k \in TaskId : \A i \in Slot : starts[k][i] <= 1

\* Two turns have each run a fan-out over a non-empty queue.
C9_Witness ==
  \E t1, t2 \in Turn :
    /\ t1 < t2
    /\ Passed(t1) /\ Len(tasksRead[t1]) > 0
    /\ Passed(t2) /\ Len(tasksRead[t2]) > 0

\* C10: limit checks run on metadata only.  While the check is pending every
\* gathered file has null content and nothing has been resolved; when checkFile
\* has thrown, execute has logged it and returned with no content resolved, no
\* Task built, no renderer attached, no stream opened and no entry started.
C10_LimitCheckBeforeContent ==
  mode = "cli" =>
    /\ cpc \in {"start", "check"} =>
         (resolveCalls = 0 /\ \A i \in DOMAIN contextInfo : contextInfo[i].content = Null)
    /\ (\E e \in errLog : e[1] = "limit") =>
         /\ cpc = "returned"
         /\ resolveCalls = 0 /\ context = <<>>
         /\ ntasks = 0 /\ curTask[CliTurn] = 0
         /\ attachedTo = 0
         /\ \A k \in TaskId :
              /\ attachCalls[k] = 0 /\ stream[k] = "none" /\ queueReads[k] = 0
              /\ \A i \in Slot : starts[k][i] = 0

\* checkFile threw for the second of two gathered files and execute returned.
C10_Witness ==
  /\ mode = "cli" /\ cpc = "returned"
  /\ Len(contextInfo) = 2
  /\ <<"limit", 2, 0>> \in errLog

----------------------------------------------------------------------------
----------------------------------------------------------------------------
\* C12: unbounded fan-out in enqueue order.  From the step that reads the
\* queue on, the entries mapped over are the queue entries in queue order and
\* every one of them has been called, whatever the state of the others: no
\* entry waits for another to settle before it is started.
C12_FanOutInQueueOrder ==
  \A t \in Turn : Ran(t) =>
    LET k == curTask[t]
    IN /\ Len(tasksRead[t]) = Len(queue[k])
       /\ Len(status[t]) = Len(queue[k])
       /\ \A j \in 1..Len(queue[k]) :
            /\ tasksRead[t][j] = <<k, j>>
            /\ starts[k][j] >= 1
            /\ status[t][j] \in {"running", "ok", "failed"}

\* The second entry has settled while the first, started before it, still runs.
C12_Witness ==
  \E t \in Turn : Ran(t) /\ status[t] = <<"running", "ok">>

----------------------------------------------------------------------------
\* C13: the context handed to Task holds only File values.  The list
\* resolveContent returned, in execute and in a direct call, has no null entry.
C13_ContextHasNoNull ==
  /\ \A i \in DOMAIN context : context[i] # NoFile
  /\ (call.fn = "resolveContent" /\ call.done) => \A i \in DOMAIN call.result : call.result[i] # 0

\* C14, state part: handleQuestion of a turn calls askQuestion at most once,
\* and exactly once by the time it is over unless the line was the exit command.
C14_AskedOnce ==
  \A t \in Turn :
    /\ asked[t] <= 1
    /\ pc[t] # "escaped"
    /\ pc[t] = "done" => asked[t] = (IF cmd[t] = "/exit" THEN 0 ELSE 1)

\* C14: REPL liveness.  Every line that was answered leads to the end of its
\* turn, at which handleQuestion has requested the next input exactly once.
C14_ReplLiveness ==
  /\ [](C14_AskedOnce)
  /\ \A t \in Turn : (pc[t] # "none") ~> (pc[t] = "done")

\* After a slash command that failed, a turn whose two invocations both failed
\* is over and the next input has been requested.
C14_Witness ==
  /\ MaxTurns >= 2
  /\ cmd[1] = "/bad" /\ pc[1] = "done" /\ asked[1] = 1
  /\ pc[2] = "done" /\ status[2] = <<"failed", "failed">> /\ asked[2] = 1
  /\ prompts = 1

----------------------------------------------------------------------------
\* C15: the message list sent to the model is the system message, then
\* messages of earlier turns only, then one user message for the current
\* input: the current input contributes exactly one user message.
C15_OneUserMessagePerInput ==
  messages # <<>> =>
    LET n == Len(messages)
        t == messages[n][2]
    IN /\ messages[1][1] = "system"
       /\ messages[n][1] = "user"
       /\ \A j \in 2..(n - 1) : messages[j][2] < t
       /\ Cardinality({j \in 1..n : messages[j][1] = "user" /\ messages[j][2] = t}) = 1

\* C16: whenever the REPL waits for input, state.history has even length and
\* alternates user, assistant, starting with user.
C16_HistoryWellFormed ==
  (mode = "chat" /\ prompts > 0) =>
    /\ Len(history) % 2 = 0
    /\ \A j \in 1..Len(history) : history[j][1] = (IF j % 2 = 1 THEN "user" ELSE "assistant")

\* C17: a dry run has no model or tool side effects.  With options.dry set the
\* executor is never called (no stream is opened, no chunk processed), no queue
\* is read and no entry started, execute never throws, and once execute has
\* returned after building the Task the renderer was attached once and cleaned
\* up once, not before the last statement.
C17_DryRunNoSideEffects ==
  (mode = "cli" /\ dry) =>
    /\ cpc \notin {"exec", "fanout", "thrown"}
    /\ \A k \in TaskId :
         /\ stream[k] = "none" /\ chunks[k] = 0 /\ queueReads[k] = 0
         /\ \A i \in Slot : starts[k][i] = 0
         /\ cleanupCalls[k] <= 1
    /\ cpc = "cleanup" => (attachedTo = curTask[CliTurn] /\ cleanupCalls[curTask[CliTurn]] = 0)
    /\ (cpc = "returned" /\ ntasks > 0) =>
         /\ attachCalls[curTask[CliTurn]] = 1
         /\ cleanupCalls[curTask[CliTurn]] = 1
         /\ attachedTo = 0

\* A dry run over one gathered file has returned after its cleanup.
C17_Witness ==
  /\ mode = "cli" /\ dry /\ cpc = "returned"
  /\ Len(context) = 1
  /\ curTask[CliTurn] # 0 /\ cleanupCalls[curTask[CliTurn]] = 1

\* C18: gatherContextInfo never throws.  It returns the empty list when
\* patterns is falsy or globbing fails; otherwise the paths returned are
\* exactly the matched paths whose stat succeeds, each once, and every entry
\* has null content and the size stat reported.
C18_GatherContextInfoTotal ==
  (call.fn = "gatherContextInfo" /\ call.done) =>
    LET out == call.returned
        matched == {call.globbed[i] : i \in 1..Len(call.globbed)}
    IN /\ ~call.threw
       /\ (~call.patterns \/ ~call.globOk) => out = <<>>
       /\ (call.patterns /\ call.globOk) =>
            /\ {out[i].path : i \in 1..Len(out)} = {p \in matched : call.stat[p] >= 0}
            /\ \A i, j \in 1..Len(out) : i # j => out[i].path # out[j].path
            /\ \A i \in 1..Len(out) : out[i].content = Null /\ out[i].size = call.stat[out[i].path]

\* globby matched the same path twice and a second one whose stat fails: the
\* call returned the single entry of the first.
C18_Witness ==
  /\ call.fn = "gatherContextInfo" /\ call.done
  /\ call.patterns /\ call.globOk
  /\ Len(call.globbed) = 2
  /\ \E p \in 1..MaxFiles : call.stat[p] < 0
  /\ Len(call.returned) = 1
  /\ call.stat[call.returned[1].path] = 1

====
